---- MODULE Spec2Model ----
(***************************************************************************)
(* af3ro: an afero filesystem kept in memory and backed by an S3 bucket.   *)
(*                                                                         *)
(* The model covers MemS3Fs (src/fs.go), InMemoryFile (src/file.go) and    *)
(* the helpers of src/s3.go.  Strings (paths, entity tags) are sequences   *)
(* of one-character strings, so that path.Split, path.Clean, filepath.Dir, *)
(* strings.Replace and strings.HasPrefix are computed, not assumed.        *)
(* A call of the API is one action: the calls of one client are           *)
(* sequential.  The bucket is the variable remote; every request to it may *)
(* also fail (a fault of the network or of the service).                   *)
(***************************************************************************)
EXTENDS Integers, Sequences, FiniteSets, TLC

VARIABLES data, remote, ret, status, scn

vars == <<data, remote, ret, status, scn>>

(***************************************************************************)
(* Bounds of the model.                                                    *)
(***************************************************************************)
\* longest buffer a Write or a Truncate may produce
MaxLen == 2

\* the byte values of the model; 0 is the padding byte
Byte == {0, 1}

RECURSIVE SeqsUpTo(_, _)
SeqsUpTo(S, n) ==
    IF n = 0 THEN {<<>>}
    ELSE LET shorter == SeqsUpTo(S, n - 1)
         IN  shorter \cup {Append(s, x) : s \in {t \in shorter : Len(t) = n - 1}, x \in S}

Bytes == SeqsUpTo(Byte, MaxLen)

Min(a, b) == IF a <= b THEN a ELSE b

\* n copies of the byte 0: bytes.Repeat([]byte{00}, n)
Zeros(n) == [i \in 1..n |-> 0]

\* Go's s[lo:hi] with 0-based, half-open bounds
Slice(s, lo, hi) == SubSeq(s, lo + 1, hi)

(***************************************************************************)
(* Strings: path and strings packages of Go's standard library.            *)
(***************************************************************************)
\* index (1-based) of the last "/" of p, 0 when there is none
RECURSIVE LastSlash(_, _)
LastSlash(p, i) ==
    IF i = 0 THEN 0
    ELSE IF p[i] = "/" THEN i ELSE LastSlash(p, i - 1)

\* path.Split: the directory part keeps its final slash
PathSplit(p) ==
    LET i == LastSlash(p, Len(p))
    IN  [dir |-> SubSeq(p, 1, i), file |-> SubSeq(p, i + 1, Len(p))]

\* the elements of p between slashes, empty ones and "." dropped
RECURSIVE Elements(_, _, _)
Elements(p, i, cur) ==
    LET keep(e) == IF e = <<>> \/ e = <<".">> THEN <<>> ELSE <<e>>
    IN  IF i > Len(p) THEN keep(cur)
        ELSE IF p[i] = "/" THEN keep(cur) \o Elements(p, i + 1, <<>>)
        ELSE Elements(p, i + 1, Append(cur, p[i]))

RECURSIVE Join(_)
Join(es) ==
    IF es = <<>> THEN <<>>
    ELSE IF Len(es) = 1 THEN es[1]
    ELSE es[1] \o <<"/">> \o Join(Tail(es))

\* path.Clean, for paths without ".." elements
PathClean(p) ==
    LET rooted == p # <<>> /\ p[1] = "/"
        body == Join(Elements(p, 1, <<>>))
    IN  IF rooted THEN <<"/">> \o body
        ELSE IF body = <<>> THEN <<".">> ELSE body

\* filepath.Dir: all but the last element, cleaned
FilepathDir(p) == PathClean(SubSeq(p, 1, LastSlash(p, Len(p))))

\* strings.HasPrefix
HasPrefix(s, prefix) ==
    Len(prefix) <= Len(s) /\ SubSeq(s, 1, Len(prefix)) = prefix

\* strings.Replace(s, old, "", n) for a one-character old: the first n
\* occurrences are dropped, all of them when n < 0
RECURSIVE StringsReplace(_, _, _)
StringsReplace(s, old, n) ==
    IF s = <<>> \/ n = 0 THEN s
    ELSE IF Head(s) = old THEN StringsReplace(Tail(s), old, n - 1)
    ELSE <<Head(s)>> \o StringsReplace(Tail(s), old, n)

(***************************************************************************)
(* Entity tags (src/file.go Close, src/s3.go getEtag).                     *)
(***************************************************************************)
Quote == "\""

HexDigits == <<"0", "1", "2", "3", "4", "5", "6", "7",
               "8", "9", "a", "b", "c", "d", "e", "f">>

\* fmt's %x of a number: its hexadecimal digits
RECURSIVE Hex(_)
Hex(n) ==
    IF n < 16 THEN <<HexDigits[n + 1]>>
    ELSE Hex(n \div 16) \o <<HexDigits[(n % 16) + 1]>>

\* The digest of a buffer.  MD5 is modelled by a digest that, like MD5 in
\* practice, differs for different buffers: the bits of the buffer behind a
\* leading 1.
RECURSIVE Digest(_)
Digest(b) ==
    IF b = <<>> THEN 1
    ELSE 2 * Digest(SubSeq(b, 1, Len(b) - 1)) + b[Len(b)]

\* hasher.Sum in hexadecimal
Md5Hex(b) == Hex(Digest(b))

\* fmt.Sprintf("\"%x\"", hasher.Sum([]byte{}))
Expected(b) == <<Quote>> \o Md5Hex(b) \o <<Quote>>

\* The ETag header S3 gives an object stored by one PUT: the quoted MD5.
PutEtag(b) == <<Quote>> \o Md5Hex(b) \o <<Quote>>

\* ETag headers of objects stored by other means: a store that does not
\* quote the tag, and a multipart upload (no content hash).
BareEtag(b) == Md5Hex(b)
MultipartEtag(b) == <<Quote>> \o Md5Hex(b) \o <<"-", "2">> \o <<Quote>>

(***************************************************************************)
(* Permission bits and access levels (src/s3.go).                          *)
(***************************************************************************)
gRead == 5
gWrite == 4
oRead == 2
oWrite == 1

\* m & (1 << bit) != 0
BitSet(m, bit) == (m \div (2 ^ bit)) % 2 = 1

\* getACL as it would be if it looked at the execute bit of the others
\* instead of their write bit
getACLByExecBit(m) ==
    IF BitSet(m, 0) THEN "public-read-write"
    ELSE IF BitSet(m, oRead) THEN "public-read"
    ELSE IF BitSet(m, gWrite) THEN "bucket-owner-full-control"
    ELSE IF BitSet(m, gRead) THEN "bucket-owner-read"
    ELSE "private"

\* getACL
getACL(m) ==
    IF BitSet(m, oWrite) THEN "public-read-write"
    ELSE IF BitSet(m, oRead) THEN "public-read"
    ELSE IF BitSet(m, gWrite) THEN "bucket-owner-full-control"
    ELSE IF BitSet(m, gRead) THEN "bucket-owner-read"
    ELSE "private"

\* the mode MemFileCreate gives a file: 0640
CreateMode == 416

\* the modes a caller passes to OpenFile and Chmod: 0600 and 0666
Modes == {384, 438}

(***************************************************************************)
(* Go maps: a map is a function whose domain is its set of keys.           *)
(***************************************************************************)
EmptyMap == [k \in {} |-> k]

MapPut(m, k, v) == [x \in DOMAIN m \cup {k} |-> IF x = k THEN v ELSE m[x]]

MapDelete(m, k) == [x \in DOMAIN m \ {k} |-> m[x]]

(***************************************************************************)
(* The bucket (goamz s3.Bucket): remote maps a key to the object stored    *)
(* under it.  fault is the failure of the request itself.                  *)
(***************************************************************************)
Req(verb, key, body, acl, result) ==
    [verb |-> verb, key |-> key, body |-> body, acl |-> acl, result |-> result]

BucketHead(rem, key, fault) ==
    IF fault
    THEN [err |-> "RemoteFailure", etag |-> <<>>,
          req |-> Req("HEAD", key, <<>>, "", "fault")]
    ELSE IF key \notin DOMAIN rem
    THEN [err |-> "404 Not Found", etag |-> <<>>,
          req |-> Req("HEAD", key, <<>>, "", "404")]
    ELSE [err |-> "nil", etag |-> rem[key].etag,
          req |-> Req("HEAD", key, <<>>, "", "ok")]

BucketGet(rem, key, fault) ==
    IF fault
    THEN [err |-> "RemoteFailure", body |-> <<>>,
          req |-> Req("GET", key, <<>>, "", "fault")]
    ELSE IF key \notin DOMAIN rem
    THEN [err |-> "404 Not Found", body |-> <<>>,
          req |-> Req("GET", key, <<>>, "", "404")]
    ELSE [err |-> "nil", body |-> rem[key].body,
          req |-> Req("GET", key, <<>>, "", "ok")]

BucketPut(rem, key, body, acl, fault) ==
    IF fault
    THEN [err |-> "RemoteFailure", remote |-> rem,
          req |-> Req("PUT", key, body, acl, "fault")]
    ELSE [err |-> "nil",
          remote |-> MapPut(rem, key, [body |-> body, etag |-> PutEtag(body)]),
          req |-> Req("PUT", key, body, acl, "ok")]

BucketDel(rem, key, fault) ==
    IF fault
    THEN [err |-> "RemoteFailure", remote |-> rem,
          req |-> Req("DELETE", key, <<>>, "", "fault")]
    ELSE [err |-> "nil", remote |-> MapDelete(rem, key),
          req |-> Req("DELETE", key, <<>>, "", "ok")]

(***************************************************************************)
(* src/s3.go: headName and getEtag.                                        *)
(***************************************************************************)
headName(rem, name, fault) ==
    LET resp == BucketHead(rem, name, fault)
    IN  IF resp.err = "404 Not Found"
        THEN [resp EXCEPT !.err = "ErrFileNotFound"]
        ELSE resp

getEtag(rem, name, fault) ==
    LET resp == headName(rem, name, fault)
    IN  IF resp.err # "nil"
        THEN [resp EXCEPT !.etag = <<>>]
        ELSE [resp EXCEPT !.etag = StringsReplace(resp.etag, Quote, 0)]

(***************************************************************************)
(* src/file.go: InMemoryFile.  A node is a record; memDir.nil says that    *)
(* the memDir field is nil, bucket says that the bucket field is not.      *)
(***************************************************************************)
NilDir == [nil |-> TRUE, files |-> {}]

MemFileCreate(name) ==
    [name |-> name, data |-> <<>>, at |-> 0, closed |-> FALSE,
     mode |-> CreateMode, dir |-> FALSE, memDir |-> NilDir, bucket |-> TRUE]

\* &InMemoryFile{name: name, memDir: &MemDirMap{}, dir: true}
MemDirCreate(name) ==
    [name |-> name, data |-> <<>>, at |-> 0, closed |-> FALSE,
     mode |-> 0, dir |-> TRUE, memDir |-> [nil |-> FALSE, files |-> {}],
     bucket |-> FALSE]

\* a map entry that holds the nil afero.File: what a read of an absent key
\* gives and Rename may store
NilFile == [nil |-> TRUE]

\* InMemoryFile.Open
FileOpen(f) == [f EXCEPT !.at = 0, !.closed = FALSE]

\* What a file operation gives back: the node after it, the bucket after
\* it, the returned count and error, the bytes handed out, the requests
\* sent to the bucket, and whether the call panicked.
Result(f, rem, n, err, out, reqs, panic) ==
    [f |-> f, remote |-> rem, n |-> n, err |-> err, out |-> out,
     reqs |-> reqs, panic |-> panic]

\* Close as it would be if it took every failure of the HEAD for "no such
\* object" and uploaded
FileCloseAnyError(f, rem, headFault, putFault) ==
    LET f1 == [f EXCEPT !.at = 0, !.closed = TRUE]
        e == getEtag(rem, f1.name, headFault)
    IN  IF e.err = "nil" /\ e.etag = Expected(f1.data)
        THEN Result(f1, rem, 0, "nil", <<>>, <<e.req>>, FALSE)
        ELSE LET p == BucketPut(rem, f1.name, f1.data, getACL(f1.mode), putFault)
             IN  Result(f1, p.remote, 0, p.err, <<>>, <<e.req, p.req>>, FALSE)

\* InMemoryFile.Close
FileClose(f, rem, headFault, putFault) ==
    LET f1 == [f EXCEPT !.at = 0, !.closed = TRUE]
        expected == Expected(f1.data)
        e == getEtag(rem, f1.name, headFault)
    IN  IF e.err # "nil"
        THEN Result(f1, rem, 0, e.err, <<>>, <<e.req>>, FALSE)
        ELSE IF e.etag = expected
        THEN Result(f1, rem, 0, "nil", <<>>, <<e.req>>, FALSE)
        ELSE LET p == BucketPut(rem, f1.name, f1.data, getACL(f1.mode), putFault)
             IN  Result(f1, p.remote, 0, p.err, <<>>, <<e.req, p.req>>, FALSE)

\* InMemoryFile.Read with a destination of length k
FileRead(f, rem, k, getFault) ==
    IF f.closed THEN Result(f, rem, 0, "ErrFileClosed", <<>>, <<>>, FALSE)
    ELSE
    LET fetch == Len(f.data) = 0
        g == BucketGet(rem, f.name, getFault)
        reqs == IF fetch THEN <<g.req>> ELSE <<>>
        f1 == IF fetch
              THEN IF g.err # "nil" THEN [f EXCEPT !.data = g.body]
                   ELSE [f EXCEPT !.data = g.body, !.at = 0]
              ELSE f
        full == Len(f1.data) - f1.at >= k
        n == IF full THEN k ELSE Len(f1.data) - f1.at
        err == IF full THEN "nil" ELSE "EOF"
    IN  IF fetch /\ g.err # "nil"
        THEN Result(f1, rem, 0, g.err, <<>>, reqs, FALSE)
        ELSE IF f1.at < 0 \/ f1.at + n < f1.at \/ f1.at + n > Len(f1.data)
        THEN \* f.data[f.at : f.at+n] is out of range
             Result(f1, rem, 0, "panic", <<>>, reqs, TRUE)
        ELSE Result([f1 EXCEPT !.at = f1.at + n], rem, n, err,
                    Slice(f1.data, f1.at, f1.at + n), reqs, FALSE)

\* InMemoryFile.ReadAt
FileReadAt(f, rem, k, off, getFault) ==
    FileRead([f EXCEPT !.at = off], rem, k, getFault)

\* InMemoryFile.Truncate
FileTruncate(f, rem, size) ==
    IF f.closed THEN Result(f, rem, 0, "ErrFileClosed", <<>>, <<>>, FALSE)
    ELSE IF size < 0 THEN Result(f, rem, 0, "ErrOutOfRange", <<>>, <<>>, FALSE)
    ELSE IF size > Len(f.data)
    THEN Result([f EXCEPT !.data = f.data \o Zeros(size - Len(f.data))],
                rem, 0, "nil", <<>>, <<>>, FALSE)
    ELSE Result([f EXCEPT !.data = Slice(f.data, 0, size)],
                rem, 0, "nil", <<>>, <<>>, FALSE)

\* InMemoryFile.Seek
FileSeek(f, rem, offset, whence) ==
    IF f.closed THEN Result(f, rem, 0, "ErrFileClosed", <<>>, <<>>, FALSE)
    ELSE
    LET at == CASE whence = 0 -> offset
                [] whence = 1 -> f.at + offset
                [] whence = 2 -> Len(f.data) + offset
                [] OTHER -> f.at
    IN  Result([f EXCEPT !.at = at], rem, at, "nil", <<>>, <<>>, FALSE)

\* Write as it would be if it wrote through to the bucket
FileWriteThrough(f, rem, b) ==
    LET d == Slice(f.data, 0, Min(f.at, Len(f.data))) \o b
        p == BucketPut(rem, f.name, d, getACL(f.mode), FALSE)
    IN  Result([f EXCEPT !.data = d, !.at = Len(d)],
               p.remote, Len(b), "nil", <<>>, <<p.req>>, FALSE)

\* InMemoryFile.Write
FileWrite(f, rem, b) ==
    LET n == Len(b)
        cur == f.at
        diff == cur - Len(f.data)
        hasTail == n + cur < Len(f.data)
    IN  IF cur < 0
        THEN \* f.data[n+cur:] or f.data[:cur] is out of range
             Result(f, rem, 0, "panic", <<>>, <<>>, TRUE)
        ELSE
        LET tail == IF hasTail THEN Slice(f.data, n + cur, Len(f.data)) ELSE <<>>
            d == IF diff > 0
                 THEN (Zeros(diff) \o b) \o tail
                 ELSE (Slice(f.data, 0, cur) \o b) \o tail
        IN  Result([f EXCEPT !.data = d, !.at = Len(d)],
                   rem, n, "nil", <<>>, <<>>, FALSE)

\* InMemoryFile.WriteAt
FileWriteAt(f, rem, b, off) == FileWrite([f EXCEPT !.at = off], rem, b)

\* InMemoryFile.WriteString
FileWriteString(f, rem, s) == FileWrite(f, rem, s)

\* InMemoryFile.Sync
FileSync(f, rem) == Result(f, rem, 0, "nil", <<>>, <<>>, FALSE)

(***************************************************************************)
(* src/fs.go: MemS3Fs.  The namespace map data is threaded through the     *)
(* helpers as d.  A node reference (afero.File) is <<key>>, the key of the *)
(* map that holds the node, and <<>> is nil.  A namespace state st is      *)
(* [d, done, panic]: done is FALSE when the call does not terminate within *)
(* its fuel, panic is TRUE when it panicked.                               *)
(***************************************************************************)
Root == <<"/">>

\* the key Remove looks up: the literal "name"
NameLit == <<"n", "a", "m", "e">>

State(d) == [d |-> d, done |-> TRUE, panic |-> FALSE]

\* more steps than the fabrication of the ancestors of name can take
Fuel(name) == Len(name) + 2

\* MemS3Fs.Open
FsOpen(d, name) ==
    IF name \in DOMAIN d /\ d[name] # NilFile
    THEN [d |-> [d EXCEPT ![name] = FileOpen(@)], f |-> <<name>>, err |-> "nil"]
    ELSE [d |-> d, f |-> <<>>, err |-> "ErrFileNotFound"]

\* MemS3Fs.findParent
findParent(d, fname) ==
    LET dirs == PathSplit(fname).dir
        parent == PathSplit(PathClean(dirs)).file
    IN  IF Len(dirs) > 1 /\ Len(parent) > 0
        THEN LET o == FsOpen(d, parent)
             IN  IF o.err # "nil"
                 THEN [d |-> o.d, parent |-> o.f]
                 ELSE [d |-> o.d, parent |-> <<>>]
        ELSE [d |-> d, parent |-> <<>>]

RECURSIVE FsMkdir(_, _, _)
RECURSIVE registerLoop(_, _, _, _)
RECURSIVE registerWithParent(_, _, _)

\* MemS3Fs.registerDirs
registerDirs(st, fname, fuel) == registerLoop(st, fname, fname, fuel)

\* the loop of registerDirs: x is the name it compares with "/"
registerLoop(st, fname, x, fuel) ==
    IF x = Root \/ st.panic \/ ~st.done THEN st
    ELSE IF fuel = 0 THEN [st EXCEPT !.done = FALSE]
    ELSE LET r == registerWithParent(st, fname, fuel - 1)
         IN  IF r.parent = <<>> THEN r.st
             ELSE registerLoop(r.st, fname, r.st.d[r.parent[1]].name, fuel - 1)

\* MemS3Fs.registerWithParent
registerWithParent(st, fname, fuel) ==
    LET p == findParent(st.d, fname)
    IN  IF p.parent # <<>>
        THEN LET pk == p.parent[1]
             IN  IF p.d[pk].memDir.nil
                 THEN [st |-> [st EXCEPT !.d = p.d, !.panic = TRUE],
                       parent |-> p.parent]
                 ELSE [st |-> [st EXCEPT !.d =
                                  [p.d EXCEPT ![pk].memDir.files = @ \cup {fname}]],
                       parent |-> p.parent]
        ELSE [st |-> FsMkdir([st EXCEPT !.d = p.d],
                             FilepathDir(PathClean(fname)), fuel).st,
              parent |-> <<>>]

\* Mkdir as it would be if it did not register the new directory with its
\* own ancestors
FsMkdirUnregistered(st, name, fuel) ==
    IF st.panic \/ ~st.done THEN [st |-> st, err |-> "nil"]
    ELSE IF name \in DOMAIN st.d
    THEN IF st.d[name] # NilFile /\ ~st.d[name].memDir.nil
         THEN [st |-> st, err |-> "nil"]
         ELSE [st |-> st, err |-> "ErrFileExists"]
    ELSE [st |-> [st EXCEPT !.d = MapPut(@, name, MemDirCreate(name))],
          err |-> "nil"]

\* MemS3Fs.Mkdir
FsMkdir(st, name, fuel) ==
    IF st.panic \/ ~st.done THEN [st |-> st, err |-> "nil"]
    ELSE IF name \in DOMAIN st.d
    THEN IF st.d[name] # NilFile /\ ~st.d[name].memDir.nil
         THEN [st |-> st, err |-> "nil"]
         ELSE [st |-> st, err |-> "ErrFileExists"]
    ELSE [st |-> registerDirs([st EXCEPT !.d = MapPut(@, name, MemDirCreate(name))],
                              name, fuel),
          err |-> "nil"]

\* MemS3Fs.Create
FsCreate(d, name) ==
    registerDirs(State(MapPut(d, name, MemFileCreate(name))), name, Fuel(name))

\* MemS3Fs.Chmod
FsChmod(d, name, mode) ==
    IF name \notin DOMAIN d
    THEN [d |-> d, err |-> "ErrFileNotFound"]
    ELSE IF d[name] = NilFile
    THEN [d |-> d, err |-> "Unable to Chmod Memory File"]
    ELSE [d |-> [d EXCEPT ![name].mode = mode], err |-> "nil"]

\* MemS3Fs.OpenFile
FsOpenFile(d, name, perm) ==
    LET o == FsOpen(d, name)
    IN  IF o.err # "nil" THEN [d |-> o.d, f |-> o.f, err |-> o.err]
        ELSE LET c == FsChmod(o.d, o.d[name].name, perm)
             IN  [d |-> c.d, f |-> o.f, err |-> c.err]

\* InMemoryFileInfo.Size
InfoSize(f) == IF f.dir THEN 42 ELSE Len(f.data)

\* sync.RWMutex.Lock as called by a goroutine that holds the lock for
\* reading readers times itself: with a reader in, Lock waits for ever
LockBlocks(readers) == readers > 0

BucketCopy(rem, dst, src, fault) ==
    IF fault
    THEN [err |-> "RemoteFailure", remote |-> rem,
          req |-> Req("COPY", dst, <<>>, "private", "fault")]
    ELSE IF src \notin DOMAIN rem
    THEN [err |-> "404 Not Found", remote |-> rem,
          req |-> Req("COPY", dst, <<>>, "private", "404")]
    ELSE [err |-> "nil", remote |-> MapPut(rem, dst, rem[src]),
          req |-> Req("COPY", dst, rem[src].body, "private", "ok")]

\* Bucket.List(prefix, "/", marker, 0): every listing of the model fits
\* in one response, which is therefore not truncated
BucketList(rem, prefix, fault) ==
    IF fault
    THEN [err |-> "RemoteFailure", keys |-> {}, truncated |-> FALSE,
          req |-> Req("LIST", prefix, <<>>, "", "fault")]
    ELSE [err |-> "nil",
          keys |-> {k \in DOMAIN rem :
                      /\ HasPrefix(k, prefix)
                      /\ \A i \in (Len(prefix) + 1)..Len(k) : k[i] # "/"},
          truncated |-> FALSE,
          req |-> Req("LIST", prefix, <<>>, "", "ok")]

\* MemS3Fs.Remove, called by a goroutine that already holds the lock for
\* reading held times (Rename calls it with the lock held).  hung: the call
\* never returns.
FsRemove(d, rem, name, held, delFault) ==
    LET readers == held + 1
        del == BucketDel(rem, name, delFault)
    IN  IF NameLit \in DOMAIN d
        THEN IF LockBlocks(readers)
             THEN [d |-> d, remote |-> del.remote, err |-> "nil",
                   reqs |-> <<del.req>>, hung |-> TRUE]
             ELSE [d |-> MapDelete(d, name), remote |-> del.remote, err |-> "nil",
                   reqs |-> <<del.req>>, hung |-> FALSE]
        ELSE [d |-> d, remote |-> del.remote, err |-> "nil",
              reqs |-> <<del.req>>, hung |-> FALSE]

\* Rename as it would be if it did not delete the old key of the map
FsRenameKeepsOld(d, rem, oldname, newname, copyFault, delFault) ==
    IF oldname \notin DOMAIN d
    THEN [d |-> d, remote |-> rem, err |-> "ErrFileNotFound",
          reqs |-> <<>>, hung |-> FALSE]
    ELSE IF newname \in DOMAIN d
    THEN [d |-> d, remote |-> rem, err |-> "ErrDestinationExists",
          reqs |-> <<>>, hung |-> FALSE]
    ELSE LET d1 == MapPut(d, newname, d[oldname])
             c == BucketCopy(rem, newname, oldname, copyFault)
         IN  IF c.err # "nil"
             THEN [d |-> d1, remote |-> c.remote, err |-> c.err,
                   reqs |-> <<c.req>>, hung |-> FALSE]
             ELSE LET r == FsRemove(d1, c.remote, oldname, 1, delFault)
                  IN  [r EXCEPT !.reqs = <<c.req>> \o @]

\* MemS3Fs.Rename
FsRename(d, rem, oldname, newname, copyFault, delFault) ==
    IF oldname \notin DOMAIN d
    THEN [d |-> d, remote |-> rem, err |-> "ErrFileNotFound",
          reqs |-> <<>>, hung |-> FALSE]
    ELSE IF newname \in DOMAIN d
    THEN [d |-> d, remote |-> rem, err |-> "ErrDestinationExists",
          reqs |-> <<>>, hung |-> FALSE]
    ELSE LET d1 == MapDelete(MapPut(d, newname, d[oldname]), oldname)
             c == BucketCopy(rem, newname, oldname, copyFault)
         IN  IF c.err # "nil"
             THEN [d |-> d1, remote |-> c.remote, err |-> c.err,
                   reqs |-> <<c.req>>, hung |-> FALSE]
             ELSE LET r == FsRemove(d1, c.remote, oldname, 1, delFault)
                  IN  [r EXCEPT !.reqs = <<c.req>> \o @]

\* The listing loop of RemoveAll.  truncated is items.IsTruncated of the
\* outer items, which the loop never assigns (its := declares another
\* items); failAt is the List call that fails, 0 for none.
RECURSIVE listLoop(_, _, _, _, _, _, _)
listLoop(truncated, rem, path, toDel, reqs, failAt, fuel) ==
    IF ~truncated
    THEN [err |-> "nil", toDel |-> toDel, reqs |-> reqs, hung |-> FALSE, listed |-> TRUE]
    ELSE IF fuel = 0
    THEN [err |-> "nil", toDel |-> toDel, reqs |-> reqs, hung |-> TRUE, listed |-> FALSE]
    ELSE LET items == BucketList(rem, path, failAt = Len(reqs) + 1)
         IN  IF items.err # "nil"
             THEN [err |-> items.err, toDel |-> toDel,
                   reqs |-> Append(reqs, items.req), hung |-> FALSE, listed |-> FALSE]
             ELSE listLoop(truncated, rem, path, toDel \cup items.keys,
                           Append(reqs, items.req), failAt, fuel - 1)

\* Bucket.DelMulti
BucketDelMulti(rem, keys, fault) ==
    IF fault
    THEN [err |-> "RemoteFailure", remote |-> rem,
          req |-> Req("DELMULTI", <<>>, <<>>, "", "fault")]
    ELSE [err |-> "nil", remote |-> [k \in DOMAIN rem \ keys |-> rem[k]],
          req |-> Req("DELMULTI", <<>>, <<>>, "", "ok")]

\* the List calls after which the model gives up on the loop of RemoveAll
ListFuel(rem) == Cardinality(DOMAIN rem) + 2

\* RemoveAll as it would be if it matched whole path elements: the path
\* itself and what lies below path + "/"
FsRemoveAllBelow(d, rem, path, failAt, delFault) ==
    LET d1 == [k \in {x \in DOMAIN d :
                        x # path /\ ~HasPrefix(x, path \o <<"/">>)} |-> d[k]]
        l == listLoop(TRUE, rem, path, {}, <<>>, failAt, ListFuel(rem))
    IN  IF l.hung \/ l.err # "nil"
        THEN [d |-> d1, remote |-> rem, err |-> l.err, reqs |-> l.reqs, hung |-> l.hung]
        ELSE LET x == BucketDelMulti(rem, l.toDel, delFault)
             IN  [d |-> d1, remote |-> x.remote, err |-> x.err,
                  reqs |-> Append(l.reqs, x.req), hung |-> FALSE]

\* MemS3Fs.RemoveAll
FsRemoveAll(d, rem, path, failAt, delFault) ==
    LET d1 == [k \in {x \in DOMAIN d : ~HasPrefix(x, path)} |-> d[k]]
        l == listLoop(TRUE, rem, path, {}, <<>>, failAt, ListFuel(rem))
    IN  IF l.hung \/ l.err # "nil"
        THEN [d |-> d1, remote |-> rem, err |-> l.err, reqs |-> l.reqs, hung |-> l.hung]
        ELSE LET x == BucketDelMulti(rem, l.toDel, delFault)
             IN  [d |-> d1, remote |-> x.remote, err |-> x.err,
                  reqs |-> Append(l.reqs, x.req), hung |-> FALSE]

(***************************************************************************)
(* The calls.  ret is the last call and what it returned: op and its       *)
(* arguments name, to and arg, the count n, the error err, the bytes out   *)
(* that a Read copied, and reqs, the requests it sent to the bucket.       *)
(* status is "running", "hung" once a call blocks or loops for ever, and   *)
(* "panicked" once a call panicked; the client makes no call after that.   *)
(* A file is operated through the handle that Create or Open returned for  *)
(* its key k; the calls on a handle are those on a regular file.           *)
(***************************************************************************)
Ret(op, name, to, arg, n, err, out, reqs) ==
    [op |-> op, name |-> name, to |-> to, arg |-> arg, n |-> n, err |-> err,
     out |-> out, reqs |-> reqs]

NoCall == Ret("", <<>>, <<>>, 0, 0, "nil", <<>>, <<>>)

IsFile(k) == k \in DOMAIN data /\ ~data[k].dir

\* the outcomes of a request: it fails or not; sent says whether the call
\* sends the request at all
Faults(sent) == IF sent THEN BOOLEAN ELSE {FALSE}

\* cursor positions of the model: one before the start to one past MaxLen
Offsets == (0 - 1)..(MaxLen + 1)

\* the effect of a call on an open handle, r being what the call gives back
FileCall(op, k, arg, r) ==
    /\ Len(r.f.data) <= MaxLen
    /\ r.f.at \in Offsets
    /\ data' = [data EXCEPT ![k] = r.f]
    /\ remote' = r.remote
    /\ ret' = Ret(op, k, <<>>, arg, r.n, r.err, r.out, r.reqs)
    /\ status' = IF r.panic THEN "panicked" ELSE "running"

\* the effect of a call on the namespace that sends nothing to the bucket
NsCall(op, name, to, arg, st, n, err) ==
    /\ data' = st.d
    /\ remote' = remote
    /\ ret' = Ret(op, name, to, arg, n, err, <<>>, <<>>)
    /\ status' = IF st.panic THEN "panicked"
                 ELSE IF ~st.done THEN "hung" ELSE "running"

\* the effect of Remove, Rename and RemoveAll, r being what the call gives back
BucketCall(op, name, to, r) ==
    /\ data' = r.d
    /\ remote' = r.remote
    /\ ret' = Ret(op, name, to, 0, 0, r.err, <<>>, r.reqs)
    /\ status' = IF r.hung THEN "hung" ELSE "running"

DoCreate(name) ==
    /\ status = "running"
    /\ NsCall("Create", name, <<>>, 0, FsCreate(data, name), 0, "nil")

DoMkdir(name) ==
    /\ status = "running"
    /\ LET m == FsMkdir(State(data), name, Fuel(name))
       IN  NsCall("Mkdir", name, <<>>, 0, m.st, 0, m.err)

\* MemS3Fs.MkdirAll: Mkdir(path, 0777)
DoMkdirAll(name) ==
    /\ status = "running"
    /\ LET m == FsMkdir(State(data), name, Fuel(name))
       IN  NsCall("MkdirAll", name, <<>>, 0, m.st, 0, m.err)

DoOpen(name) ==
    /\ status = "running"
    /\ LET o == FsOpen(data, name)
       IN  NsCall("Open", name, <<>>, 0, State(o.d), 0, o.err)

DoOpenFile(name, perm) ==
    /\ status = "running"
    /\ LET o == FsOpenFile(data, name, perm)
       IN  NsCall("OpenFile", name, <<>>, perm, State(o.d), 0, o.err)

DoChmod(name, mode) ==
    /\ status = "running"
    /\ LET c == FsChmod(data, name, mode)
       IN  NsCall("Chmod", name, <<>>, mode, State(c.d), 0, c.err)

\* MemS3Fs.Stat: n is the size the file info reports
DoStat(name) ==
    /\ status = "running"
    /\ LET o == FsOpen(data, name)
       IN  NsCall("Stat", name, <<>>, 0, State(o.d),
                  IF o.err = "nil" THEN InfoSize(o.d[name]) ELSE 0, o.err)

DoRemove(name) ==
    /\ status = "running"
    /\ \E delFault \in BOOLEAN :
          BucketCall("Remove", name, <<>>, FsRemove(data, remote, name, 0, delFault))

DoRename(oldname, newname) ==
    /\ status = "running"
    /\ \E copyFault \in BOOLEAN, delFault \in BOOLEAN :
          BucketCall("Rename", oldname, newname,
                     FsRename(data, remote, oldname, newname, copyFault, delFault))

DoRemoveAll(path) ==
    /\ status = "running"
    /\ \E failAt \in 0..1, delFault \in BOOLEAN :
          BucketCall("RemoveAll", path, <<>>,
                     FsRemoveAll(data, remote, path, failAt, delFault))

DoClose(k) ==
    /\ status = "running" /\ IsFile(k)
    /\ \E headFault \in BOOLEAN, putFault \in BOOLEAN :
          FileCall("Close", k, 0, FileClose(data[k], remote, headFault, putFault))

DoRead(k, len) ==
    /\ status = "running" /\ IsFile(k)
    /\ \E getFault \in Faults(Len(data[k].data) = 0) :
          FileCall("Read", k, len, FileRead(data[k], remote, len, getFault))

DoReadAt(k, len, off) ==
    /\ status = "running" /\ IsFile(k)
    /\ \E getFault \in Faults(Len(data[k].data) = 0) :
          FileCall("ReadAt", k, len, FileReadAt(data[k], remote, len, off, getFault))

DoWrite(k, b) ==
    /\ status = "running" /\ IsFile(k)
    /\ FileCall("Write", k, 0, FileWrite(data[k], remote, b))

DoWriteAt(k, b, off) ==
    /\ status = "running" /\ IsFile(k)
    /\ FileCall("WriteAt", k, off, FileWriteAt(data[k], remote, b, off))

DoWriteString(k, str) ==
    /\ status = "running" /\ IsFile(k)
    /\ FileCall("WriteString", k, 0, FileWriteString(data[k], remote, str))

DoSeek(k, offset, whence) ==
    /\ status = "running" /\ IsFile(k)
    /\ FileCall("Seek", k, offset, FileSeek(data[k], remote, offset, whence))

DoTruncate(k, size) ==
    /\ status = "running" /\ IsFile(k)
    /\ FileCall("Truncate", k, size, FileTruncate(data[k], remote, size))

DoSync(k) ==
    /\ status = "running" /\ IsFile(k)
    /\ FileCall("Sync", k, 0, FileSync(data[k], remote))

(***************************************************************************)
(* The contents of the bucket before the first call: under each key        *)
(* nothing, or an object stored by someone else.                           *)
(***************************************************************************)
Objects(bodies) ==
    UNION {{[body |-> b, etag |-> PutEtag(b)],
            [body |-> b, etag |-> BareEtag(b)],
            [body |-> b, etag |-> MultipartEtag(b)]} : b \in bodies}

\* the contents of the objects stored by someone else
ForeignBodies == {b \in Bytes : \A i \in 1..Len(b) : b[i] = 1}

\* the strings a caller passes to WriteString: no zero byte
Texts == {b \in Bytes : \A i \in 1..Len(b) : b[i] # 0}

\* the buffers a caller passes to WriteAt: at most one byte
Short == {b \in Bytes : Len(b) <= 1}

Buckets(keys, objects) ==
    UNION {[ks -> objects] : ks \in SUBSET keys}

(***************************************************************************)
(* Spec: one client working on one file, /f.                               *)
(***************************************************************************)
FilePath == <<"/", "f">>

\* scn outside the scenarios
Idle == [pc |-> "idle", x |-> <<>>, got |-> <<>>, puts |-> <<>>, faults |-> 0,
         held |-> FALSE]

Init ==
    /\ data = EmptyMap
    /\ remote \in Buckets({FilePath}, Objects(ForeignBodies))
    /\ ret = NoCall
    /\ status = "running"
    /\ scn = Idle

Create == DoCreate(FilePath) /\ UNCHANGED scn
Mkdir == (\E name \in {Root, FilePath} : DoMkdir(name)) /\ UNCHANGED scn
MkdirAll == (\E name \in {Root, FilePath} : DoMkdirAll(name)) /\ UNCHANGED scn
Open == DoOpen(FilePath) /\ UNCHANGED scn
OpenFile == (\E perm \in Modes : DoOpenFile(FilePath, perm)) /\ UNCHANGED scn
Close == DoClose(FilePath) /\ UNCHANGED scn
Read == (\E len \in 0..(MaxLen + 1) : DoRead(FilePath, len)) /\ UNCHANGED scn
ReadAt ==
    /\ \E len \in 0..1, off \in Offsets : DoReadAt(FilePath, len, off)
    /\ UNCHANGED scn
Write == (\E b \in Bytes : DoWrite(FilePath, b)) /\ UNCHANGED scn
WriteAt ==
    /\ \E b \in Short, off \in Offsets : DoWriteAt(FilePath, b, off)
    /\ UNCHANGED scn
WriteString == (\E str \in Texts : DoWriteString(FilePath, str)) /\ UNCHANGED scn
Seek ==
    /\ \E offset \in Offsets, whence \in 0..2 : DoSeek(FilePath, offset, whence)
    /\ UNCHANGED scn
Truncate == (\E size \in (0 - 1)..MaxLen : DoTruncate(FilePath, size)) /\ UNCHANGED scn
Sync == DoSync(FilePath) /\ UNCHANGED scn
Chmod == (\E mode \in Modes : DoChmod(FilePath, mode)) /\ UNCHANGED scn

Next ==
    \/ Create \/ Mkdir \/ MkdirAll \/ Open \/ OpenFile \/ Close
    \/ Read \/ ReadAt \/ Write \/ WriteAt \/ WriteString
    \/ Seek \/ Truncate \/ Sync \/ Chmod

Spec == Init /\ [][Next]_vars

(***************************************************************************)
(* Properties of Close and of the other calls on a file, under Spec.       *)
(***************************************************************************)
\* the PUT requests of a call
Puts(r) == SelectSeq(r.reqs, LAMBDA q : q.verb = "PUT")

\* the answer to the HEAD request of a Close
HeadResult(r) == IF r.op = "Close" /\ r.reqs # <<>> THEN r.reqs[1].result ELSE ""

\* an entity tag without its double quotes
Unquoted(etag) == StringsReplace(etag, Quote, 0 - 1)

\* C1: a Close whose HEAD reports not-found issues exactly one PUT of the
\* local buffer to the file's key and does not surface the not-found: it
\* returns what the PUT returned.
C1_CloseUploadsMissing ==
    HeadResult(ret) = "404" =>
        /\ Len(Puts(ret)) = 1
        /\ Puts(ret)[1].key = data[ret.name].name
        /\ Puts(ret)[1].body = data[ret.name].data
        /\ ret.err = IF Puts(ret)[1].result = "ok" THEN "nil" ELSE "RemoteFailure"

\* C2: when the HEAD of a Close succeeds, a PUT is issued exactly when the
\* MD5 of the local buffer differs from the remote entity tag, double quotes
\* around the tag ignored; on a match nothing is written and Close succeeds.
C2_PutIffTagDiffers ==
    [][HeadResult(ret') = "ok" =>
          LET f == data'[ret'.name]
              match == Unquoted(remote[f.name].etag) = Md5Hex(f.data)
          IN  /\ (Len(Puts(ret')) = 0) <=> match
              /\ match => ret'.err = "nil" /\ remote' = remote]_vars

\* C3: a Close whose HEAD fails for another reason than not-found returns
\* that failure, issues no PUT and leaves the bucket as it was.
C3_HeadFailureNoPut ==
    [][HeadResult(ret') = "fault" =>
          /\ ret'.err = "RemoteFailure"
          /\ Len(ret'.reqs) = 1
          /\ Puts(ret') = <<>>
          /\ remote' = remote]_vars

\* C3's case: a Close of a modified file with a changed mode, whose HEAD
\* failed
C3_Witness ==
    /\ HeadResult(ret) = "fault"
    /\ data[ret.name].data # <<>>
    /\ data[ret.name].mode # CreateMode

\* the calls that C6 lists
NoCloseOps ==
    {"Create", "Mkdir", "MkdirAll", "Open", "Write", "WriteAt", "WriteString",
     "Seek", "Truncate", "Sync"}

\* C6: a Create, Mkdir, MkdirAll, Open, Write, WriteAt, WriteString, Seek,
\* Truncate or Sync call sends no PUT and leaves the objects of the bucket
\* and their contents unchanged.
C6_OnlyCloseWrites ==
    [][ret'.op \in NoCloseOps => Puts(ret') = <<>> /\ remote' = remote]_vars

\* C6's case: after a Write the buffer holds bytes, and the bucket holds
\* no object under the key of the file
C6_Witness ==
    /\ ret.op = "Write"
    /\ ret.n > 0
    /\ data[ret.name].data # <<>>
    /\ data[ret.name].name \notin DOMAIN remote

\* the calls that C7 lists
ClosedOps == {"Read", "Write", "WriteAt", "Seek", "Truncate"}

\* C7: on a closed file every Read, Write, WriteAt, Seek and Truncate fails
\* with the closed-handle error and leaves the buffer and the cursor alone.
C7_ClosedHandleFails ==
    [][/\ ret'.op \in ClosedOps
       /\ ret'.name \in DOMAIN data
       /\ data[ret'.name].closed
       => /\ ret'.err = "ErrFileClosed"
          /\ data'[ret'.name].data = data[ret'.name].data
          /\ data'[ret'.name].at = data[ret'.name].at]_vars

(***************************************************************************)
(* Two scenarios on the file /f.  scn is the position of the client in     *)
(* the scenario: pc the call it makes next, x the bytes it writes, got the *)
(* bytes it has read, puts the number of PUT requests of each Close so     *)
(* far, faults the number of requests that failed, and held whether the    *)
(* bucket at first held an object with the contents x under the key.       *)
(***************************************************************************)
FaultsOf(r) == Len(SelectSeq(r.reqs, LAMBDA q : q.result = "fault"))

ScnInit(first) ==
    /\ data = EmptyMap
    /\ remote \in Buckets({FilePath}, Objects(ForeignBodies))
    /\ ret = NoCall
    /\ status = "running"
    /\ \E x \in Bytes :
          scn = [pc |-> first, x |-> x, got |-> <<>>, puts |-> <<>>, faults |-> 0,
                 held |-> FilePath \in DOMAIN remote /\ remote[FilePath].body = x]

\* the scenario goes on with the call to
Goto(to) ==
    scn' = [scn EXCEPT !.pc = to,
                       !.faults = @ + FaultsOf(ret'),
                       !.puts = IF ret'.op = "Close"
                                THEN Append(@, Len(Puts(ret'))) ELSE @]

\* Twice: create, write x, close; reopen, write x from offset 0, close.
TwiceCreate == scn.pc = "create" /\ DoCreate(FilePath) /\ Goto("write1")
TwiceWrite1 == scn.pc = "write1" /\ DoWrite(FilePath, scn.x) /\ Goto("close1")
TwiceClose1 == scn.pc = "close1" /\ DoClose(FilePath) /\ Goto("open")
TwiceOpen == scn.pc = "open" /\ DoOpen(FilePath) /\ Goto("write2")
TwiceWrite2 == scn.pc = "write2" /\ DoWrite(FilePath, scn.x) /\ Goto("close2")
TwiceClose2 == scn.pc = "close2" /\ DoClose(FilePath) /\ Goto("done")

TwiceNext ==
    \/ TwiceCreate \/ TwiceWrite1 \/ TwiceClose1
    \/ TwiceOpen \/ TwiceWrite2 \/ TwiceClose2

SpecTwice == ScnInit("create") /\ [][TwiceNext]_vars

\* C4: writing the same content to a path twice, the bucket holding at
\* first no object or another object under the key and no request failing,
\* sends exactly one PUT, sent by the first Close; the second Close sends
\* none.
C4_OnePutForTwoWrites ==
    scn.pc = "done" /\ scn.faults = 0 /\ ~scn.held => scn.puts = <<1, 0>>

\* Round: create, write x, close; reopen and read to the end of the stream
\* with destinations of one or two bytes.  The reader stops at the first
\* error: "done" at the end of the stream, "failed" at any other error.
RoundCreate == scn.pc = "create" /\ DoCreate(FilePath) /\ Goto("write")
RoundWrite == scn.pc = "write" /\ DoWrite(FilePath, scn.x) /\ Goto("close")
RoundClose == scn.pc = "close" /\ DoClose(FilePath) /\ Goto("open")
RoundOpen == scn.pc = "open" /\ DoOpen(FilePath) /\ Goto("read")
RoundRead ==
    /\ scn.pc = "read"
    /\ \E len \in 1..2 : DoRead(FilePath, len)
    /\ scn' = [scn EXCEPT !.got = @ \o ret'.out,
                          !.faults = @ + FaultsOf(ret'),
                          !.pc = CASE ret'.err = "nil" -> "read"
                                   [] ret'.err = "EOF" -> "done"
                                   [] OTHER -> "failed"]

RoundNext == RoundCreate \/ RoundWrite \/ RoundClose \/ RoundOpen \/ RoundRead

SpecRound == ScnInit("create") /\ [][RoundNext]_vars

\* C5: the bytes written to a freshly created file that is then closed are
\* the bytes that a later Open and reads up to the end of the stream give
\* back, no request failing: the reads reach the end of the stream and
\* their bytes are the bytes written.
C5_RoundTrip ==
    scn.pc \in {"done", "failed"} /\ scn.faults = 0 =>
        scn.pc = "done" /\ scn.got = scn.x

(***************************************************************************)
(* NsSpec: one client working on the namespace.  The files stay empty;     *)
(* the bucket holds at first an empty object under some of the keys.       *)
(***************************************************************************)
PathA == <<"/", "a">>
PathAB == <<"/", "a", "/", "b">>
PathABC == <<"/", "a", "/", "b", "/", "c">>

\* the paths the client names in its calls
CreatePaths == {PathABC, PathAB, NameLit}
MkdirPaths == {PathAB, PathA, Root}
LookupPaths == {PathABC, PathAB, PathA}
RenamePaths == {PathABC, PathAB}

NsInit ==
    /\ data = EmptyMap
    /\ remote \in Buckets(RenamePaths, {[body |-> <<>>, etag |-> PutEtag(<<>>)]})
    /\ ret = NoCall
    /\ status = "running"
    /\ scn = Idle

NsCreate == (\E name \in CreatePaths : DoCreate(name)) /\ UNCHANGED scn
NsMkdir == (\E name \in MkdirPaths : DoMkdir(name)) /\ UNCHANGED scn
NsMkdirAll == (\E name \in MkdirPaths : DoMkdirAll(name)) /\ UNCHANGED scn
NsOpen == (\E name \in LookupPaths : DoOpen(name)) /\ UNCHANGED scn
NsStat == (\E name \in LookupPaths : DoStat(name)) /\ UNCHANGED scn
NsOpenFile ==
    /\ \E name \in RenamePaths, perm \in Modes : DoOpenFile(name, perm)
    /\ UNCHANGED scn
NsRemove == (\E name \in CreatePaths : DoRemove(name)) /\ UNCHANGED scn
NsRename ==
    /\ \E oldname \in RenamePaths, newname \in RenamePaths : DoRename(oldname, newname)
    /\ UNCHANGED scn
NsRemoveAll == DoRemoveAll(PathAB) /\ UNCHANGED scn

NsNext ==
    \/ NsCreate \/ NsMkdir \/ NsMkdirAll \/ NsOpen \/ NsStat \/ NsOpenFile
    \/ NsRemove \/ NsRename \/ NsRemoveAll

NsSpec == NsInit /\ [][NsNext]_vars

\* the proper ancestors of a path: its directory, the directory of that,
\* and so on up to "/" (or "." for a relative path)
RECURSIVE Ancestors(_)
Ancestors(p) ==
    LET dir == FilepathDir(p)
    IN  IF dir = p THEN {} ELSE {dir} \cup Ancestors(dir)

\* C8: a Create of a path whose ancestors below the root are all absent
\* leaves a directory node in the namespace map at every proper ancestor
\* path, and returns.
C8_Fabrication ==
    [][/\ ret'.op = "Create"
       /\ \A q \in Ancestors(ret'.name) \ {Root} : q \notin DOMAIN data
       => /\ status' = "running"
          /\ ret'.err = "nil"
          /\ \A q \in Ancestors(ret'.name) : q \in DOMAIN data' /\ data'[q].dir]_vars

\* C8's case: /a/b/c was created in a namespace that held nothing, and
\* /a/b, /a and / now hold the directories made for it
C8_Witness ==
    /\ ret.op = "Create" /\ ret.name = PathABC
    /\ DOMAIN data = {PathABC, PathAB, PathA, Root}
    /\ ~data[PathABC].dir
    /\ data[PathAB].dir /\ data[PathA].dir /\ data[Root].dir

\* C9: after Remove(path) returns, for a path that held a node before the
\* call, no node is present at path in the namespace map: Open and Stat of
\* path fail with NotFound.
C9_RemoveRemoves ==
    [][/\ ret'.op = "Remove" /\ status' = "running"
       /\ ret'.name \in DOMAIN data
       => /\ ret'.name \notin DOMAIN data'
          /\ FsOpen(data', ret'.name).err = "ErrFileNotFound"]_vars

\* C10: after Rename(old, new) returns success, a lookup of new succeeds
\* and yields the node previously stored at old, and a lookup of old fails
\* with NotFound.
C10_RenameMoves ==
    [][ret'.op = "Rename" /\ ret'.err = "nil" /\ status' = "running" =>
          /\ FsOpen(data', ret'.to).err = "nil"
          /\ ret'.name \in DOMAIN data
          /\ FsOpen(data', ret'.to).d[ret'.to] = FileOpen(data[ret'.name])
          /\ FsOpen(data', ret'.name).err = "ErrFileNotFound"]_vars

\* C10's case: a Rename returned success and the node of old is at new
C10_Witness ==
    /\ ret.op = "Rename" /\ ret.err = "nil" /\ status = "running"
    /\ ret.to \in DOMAIN data
    /\ data[ret.to].name = ret.name

(***************************************************************************)
(* RaceSpec: two goroutines calling Create, Mkdir and Rename on the same   *)
(* MemS3Fs.  A step is one critical section of the RWMutex (or the code    *)
(* between two of them); scn.g[i] is the frame of goroutine i: the call it *)
(* is in (op, name, to), the step it takes next (pc), the key cur of the   *)
(* Mkdir or registerDirs it has reached, and top, whether that Mkdir is    *)
(* the call itself and not one made by registerWithParent.  ret is the     *)
(* call that returned last, ret.arg the goroutine that made it.            *)
(***************************************************************************)
Goroutines == {1, 2}

PathB == <<"/", "b">>

\* the paths the goroutines name in their calls
RacePaths == {PathA, PathB}

Frame(pc, op, name, to, cur, top) ==
    [pc |-> pc, op |-> op, name |-> name, to |-> to, cur |-> cur, top |-> top]

IdleFrame == Frame("idle", "", <<>>, <<>>, <<>>, FALSE)

\* goroutine i goes on with the frame f
Continue(i, f) ==
    /\ scn' = [scn EXCEPT !.g[i] = f]
    /\ ret' = ret

\* the node that goroutine i allocated: ptr tells the nodes of the two
\* goroutines apart, as their addresses do
Alloc(node, i) ==
    [field \in DOMAIN node \cup {"ptr"} |->
        IF field = "ptr" THEN i ELSE node[field]]

\* return m.getData()[name], nil: the file Create returns, read from the
\* map without the lock; <<>> is nil
Returned(f) ==
    IF f.op = "Create" /\ f.name \in DOMAIN data /\ data[f.name] # NilFile
    THEN <<data[f.name]>> ELSE <<>>

\* the call of goroutine i returns err
Return(i, err, reqs) ==
    /\ scn' = [scn EXCEPT !.g[i] = IdleFrame]
    /\ ret' = Ret(scn.g[i].op, scn.g[i].name, scn.g[i].to, i, 0, err,
                  Returned(scn.g[i]), reqs)

\* the same for a call that returns from its first step
ReturnAtOnce(i, op, name, to, err) ==
    /\ scn' = scn
    /\ ret' = Ret(op, name, to, i, 0, err, <<>>, <<>>)

RaceInit ==
    /\ data \in {EmptyMap, FsCreate(EmptyMap, PathA).d}
    /\ remote \in Buckets({PathA}, {[body |-> <<>>, etag |-> PutEtag(<<>>)]})
    /\ ret = NoCall
    /\ status = "running"
    /\ scn = [pc |-> "race", g |-> [i \in Goroutines |-> IdleFrame]]

\* Create: m.lock(); m.getData()[name] = MemFileCreate(...); m.unlock()
RaceCreate(i) ==
    /\ status = "running" /\ scn.g[i].pc = "idle"
    /\ \E name \in RacePaths :
          /\ data' = MapPut(data, name, Alloc(MemFileCreate(name), i))
          /\ Continue(i, Frame("registerDirs", "Create", name, <<>>, name, FALSE))
    /\ UNCHANGED <<remote, status>>

\* registerDirs(m.getData()[cur]): the map is read without the lock; the
\* nil file makes f.Name() panic.  findParent gives nil, so that
\* registerWithParent calls Mkdir on the directory of the node's name and
\* the loop ends after it.
RaceRegisterDirs(i) ==
    LET f == scn.g[i]
    IN  /\ status = "running" /\ f.pc = "registerDirs"
        /\ IF f.cur \notin DOMAIN data \/ data[f.cur] = NilFile
           THEN /\ status' = "panicked"
                /\ data' = data
                /\ Return(i, "panic", <<>>)
           ELSE IF data[f.cur].name = Root
           THEN /\ status' = status
                /\ data' = data
                /\ Return(i, "nil", <<>>)
           ELSE LET p == findParent(data, data[f.cur].name)
                    pdir == FilepathDir(PathClean(data[f.cur].name))
                IN  /\ status' = status
                    /\ data' = p.d
                    /\ IF p.parent # <<>>
                       THEN Continue(i, [f EXCEPT !.cur = p.parent[1]])
                       ELSE Continue(i, [f EXCEPT !.pc = "mkdir", !.cur = pdir,
                                                  !.top = FALSE])
        /\ UNCHANGED remote

\* the read of the map in Create and Mkdir that holds no lock, while
\* another goroutine may write the map: the runtime may stop the program
\* (fatal error: concurrent map read and map write)
RaceFatal(i) ==
    /\ status = "running" /\ scn.g[i].pc = "registerDirs"
    /\ \E j \in Goroutines \ {i} : scn.g[j].pc \in {"idle", "mkdirPut", "rekey"}
    /\ status' = "panicked"
    /\ Return(i, "fatal error", <<>>)
    /\ UNCHANGED <<data, remote>>

\* Mkdir, first critical section: m.rlock(); d, ok := m.getData()[name];
\* m.runlock(), and the return when the key is there
MkdirCheck(i, f) ==
    IF f.cur \in DOMAIN data
    THEN LET err == IF ~f.top THEN "nil"
                    ELSE IF data[f.cur] # NilFile /\ ~data[f.cur].memDir.nil
                    THEN "nil" ELSE "ErrFileExists"
         IN  IF scn.g[i].pc = "idle"
             THEN ReturnAtOnce(i, f.op, f.name, f.to, err)
             ELSE Return(i, err, <<>>)
    ELSE Continue(i, [f EXCEPT !.pc = "mkdirPut"])

\* a call of Mkdir
RaceMkdir(i) ==
    /\ status = "running" /\ scn.g[i].pc = "idle"
    /\ \E name \in RacePaths :
          MkdirCheck(i, Frame("mkdir", "Mkdir", name, <<>>, name, TRUE))
    /\ UNCHANGED <<data, remote, status>>

\* the Mkdir that registerWithParent calls
RaceMkdirParent(i) ==
    /\ status = "running" /\ scn.g[i].pc = "mkdir"
    /\ MkdirCheck(i, scn.g[i])
    /\ UNCHANGED <<data, remote, status>>

\* Mkdir, second critical section: m.lock(); m.getData()[name] =
\* &InMemoryFile{...}; m.unlock()
RaceMkdirPut(i) ==
    LET f == scn.g[i]
    IN  /\ status = "running" /\ f.pc = "mkdirPut"
        /\ data' = MapPut(data, f.cur, MemDirCreate(f.cur))
        /\ Continue(i, [f EXCEPT !.pc = "registerDirs"])
        /\ UNCHANGED <<remote, status>>

\* Rename, first critical section: the two lookups under rlock
RaceRename(i) ==
    /\ status = "running" /\ scn.g[i].pc = "idle"
    /\ \E oldname \in RacePaths, newname \in RacePaths :
          IF oldname \notin DOMAIN data
          THEN ReturnAtOnce(i, "Rename", oldname, newname, "ErrFileNotFound")
          ELSE IF newname \in DOMAIN data
          THEN ReturnAtOnce(i, "Rename", oldname, newname, "ErrDestinationExists")
          ELSE Continue(i, Frame("rekey", "Rename", oldname, newname, <<>>, FALSE))
    /\ UNCHANGED <<data, remote, status>>

\* Rename, second critical section: m.lock(); the map is re-keyed (a read
\* of an absent key gives the nil file); PutCopy; m.unlock()
RaceRekey(i) ==
    LET f == scn.g[i]
        node == IF f.name \in DOMAIN data THEN data[f.name] ELSE NilFile
    IN  /\ status = "running" /\ f.pc = "rekey"
        /\ data' = MapDelete(MapPut(data, f.to, node), f.name)
        /\ \E copyFault \in BOOLEAN :
              LET c == BucketCopy(remote, f.to, f.name, copyFault)
              IN  /\ remote' = c.remote
                  /\ IF c.err # "nil"
                     THEN Return(i, c.err, <<c.req>>)
                     ELSE Continue(i, [f EXCEPT !.pc = "remove"])
        /\ UNCHANGED status

\* Rename, the end: m.rlock(); err = m.Remove(oldname)
RaceRemove(i) ==
    LET f == scn.g[i]
    IN  /\ status = "running" /\ f.pc = "remove"
        /\ \E delFault \in BOOLEAN :
              LET r == FsRemove(data, remote, f.name, 1, delFault)
              IN  /\ data' = r.d
                  /\ remote' = r.remote
                  /\ status' = IF r.hung THEN "hung" ELSE "running"
                  /\ Return(i, r.err, r.reqs)

\* the keys of the map that the range of RemoveAll(path) deletes
Matches(path) == {k \in DOMAIN data : HasPrefix(k, path)}

\* the range of RemoveAll goes on: to the delete of a key it finds, or,
\* when it finds none, to the listing
RemoveAllRange(i, f, keys) ==
    \/ \E k \in keys : Continue(i, [f EXCEPT !.pc = "removeAllDelete", !.cur = k])
    \/ keys = {} /\ Continue(i, [f EXCEPT !.pc = "list", !.cur = <<>>])

\* RemoveAll: m.rlock() and the range over the map up to the first key
\* with the prefix
RaceRemoveAll(i) ==
    /\ status = "running" /\ scn.g[i].pc = "idle"
    /\ \E path \in RacePaths :
          RemoveAllRange(i, Frame("range", "RemoveAll", path, <<>>, <<>>, FALSE),
                         Matches(path))
    /\ UNCHANGED <<data, remote, status>>

\* RemoveAll: m.runlock(); m.lock(); delete(m.getData(), p); m.unlock()
RaceRemoveAllDelete(i) ==
    LET f == scn.g[i]
    IN  /\ status = "running" /\ f.pc = "removeAllDelete"
        /\ data' = MapDelete(data, f.cur)
        /\ Continue(i, [f EXCEPT !.pc = "range", !.cur = <<>>])
        /\ UNCHANGED <<remote, status>>

\* RemoveAll: m.rlock() and the rest of the range.  The keys it deleted
\* are gone; a key that was stored since the range began is produced by
\* the range or skipped.
RaceRemoveAllRange(i) ==
    LET f == scn.g[i]
    IN  /\ status = "running" /\ f.pc = "range"
        /\ \/ RemoveAllRange(i, f, Matches(f.name))
           \/ RemoveAllRange(i, f, {})
        /\ UNCHANGED <<data, remote, status>>

\* RemoveAll: the listing loop and DelMulti, with the lock held for reading
RaceRemoveAllList(i) ==
    LET f == scn.g[i]
    IN  /\ status = "running" /\ f.pc = "list"
        /\ \E failAt \in 0..1, delFault \in BOOLEAN :
              LET l == listLoop(TRUE, remote, f.name, {}, <<>>, failAt,
                                ListFuel(remote))
                  x == BucketDelMulti(remote, l.toDel, delFault)
              IN  IF l.hung \/ l.err # "nil"
                  THEN /\ remote' = remote
                       /\ status' = IF l.hung THEN "hung" ELSE "running"
                       /\ Return(i, l.err, l.reqs)
                  ELSE /\ remote' = x.remote
                       /\ status' = "running"
                       /\ Return(i, x.err, Append(l.reqs, x.req))
        /\ UNCHANGED data

RaceNext ==
    \E i \in Goroutines :
        \/ RaceCreate(i) \/ RaceRegisterDirs(i) \/ RaceFatal(i)
        \/ RaceMkdir(i) \/ RaceMkdirParent(i) \/ RaceMkdirPut(i)
        \/ RaceRename(i) \/ RaceRekey(i) \/ RaceRemove(i)
        \/ RaceRemoveAll(i) \/ RaceRemoveAllDelete(i)
        \/ RaceRemoveAllRange(i) \/ RaceRemoveAllList(i)

RaceSpec == RaceInit /\ [][RaceNext]_vars

\* the step is goroutine i leaving the critical section pc
Leaves(i, pc) == scn.g[i].pc = pc /\ scn'.g[i] # scn.g[i]

\* C11: a Rename never replaces an existing destination and never invents
\* an entry.  When its newname is a key of the map at the moment it
\* re-keys the map, it leaves the map as it is and returns
\* ErrDestinationExists; when its oldname is no key of the map at that
\* moment, it leaves the map as it is and returns ErrFileNotFound.
C11_RenameRechecks ==
    [][\A i \in Goroutines :
          Leaves(i, "rekey") =>
             /\ scn.g[i].to \in DOMAIN data =>
                   /\ data' = data
                   /\ scn'.g[i].pc = "idle"
                   /\ ret'.arg = i /\ ret'.err = "ErrDestinationExists"
             /\ scn.g[i].name \notin DOMAIN data =>
                   /\ data' = data
                   /\ scn'.g[i].pc = "idle"
                   /\ ret'.arg = i /\ ret'.err = "ErrFileNotFound"]_vars

\* C14: Mkdir never replaces a regular file.  When a node that is no
\* directory is at the key at the moment Mkdir writes the map, the node
\* stays there, and Mkdir, when it is the call itself, returns
\* ErrFileExists.
C14_MkdirKeepsFile ==
    [][\A i \in Goroutines :
          /\ Leaves(i, "mkdirPut")
          /\ scn.g[i].cur \in DOMAIN data
          /\ data[scn.g[i].cur] # NilFile
          /\ ~data[scn.g[i].cur].dir
          => /\ data'[scn.g[i].cur] = data[scn.g[i].cur]
             /\ scn.g[i].top =>
                   /\ scn'.g[i].pc = "idle"
                   /\ ret'.arg = i /\ ret'.err = "ErrFileExists"]_vars

(***************************************************************************)
(* PrefixSpec: one client that creates nodes at /f, /fb, /f/b and /g and   *)
(* calls RemoveAll.  scn.before is the namespace map as it was when the    *)
(* last call, a RemoveAll, was made (scn.pc = "removed").                  *)
(***************************************************************************)
PathFB == <<"/", "f", "b">>
PathFSlashB == <<"/", "f", "/", "b">>
PathG == <<"/", "g">>

PrefixPaths == {FilePath, PathFB, PathFSlashB, PathG}

Filling == [pc |-> "fill", before |-> EmptyMap]

PrefixInit ==
    /\ data = EmptyMap
    /\ remote \in Buckets({FilePath}, {[body |-> <<>>, etag |-> PutEtag(<<>>)]})
    /\ ret = NoCall
    /\ status = "running"
    /\ scn = Filling

PrefixCreate == (\E name \in PrefixPaths : DoCreate(name)) /\ scn' = Filling
PrefixMkdir == (\E name \in PrefixPaths : DoMkdir(name)) /\ scn' = Filling
PrefixRemoveAll ==
    /\ \E path \in {FilePath, PathFB} : DoRemoveAll(path)
    /\ scn' = [pc |-> "removed", before |-> data]

PrefixNext == PrefixCreate \/ PrefixMkdir \/ PrefixRemoveAll

PrefixSpec == PrefixInit /\ [][PrefixNext]_vars

\* prefix is a plain string prefix of the path k
StartsWith(k, prefix) ==
    Len(prefix) <= Len(k) /\ \A i \in 1..Len(prefix) : k[i] = prefix[i]

\* C12: RemoveAll(prefix) removes from the namespace map exactly the nodes
\* whose key starts with prefix as a string, and leaves every other node
\* in place.
C12_RemoveAllByPrefix ==
    scn.pc = "removed" =>
        /\ DOMAIN data = {k \in DOMAIN scn.before : ~StartsWith(k, ret.name)}
        /\ \A k \in DOMAIN data : data[k] = scn.before[k]

\* C12's case: /f, /fb, /f/b and /g held nodes, RemoveAll("/f") was called
\* and only / and /g are left
C12_Witness ==
    /\ scn.pc = "removed" /\ ret.op = "RemoveAll" /\ ret.name = FilePath
    /\ PrefixPaths \subseteq DOMAIN scn.before
    /\ DOMAIN data = {Root, PathG}

\* C13: OpenFile(path, flag, perm) succeeds exactly when a node is present
\* at path in the namespace map, whichever call put it there, and after a
\* success the mode of the node at path is perm.  (NsSpec)
C13_OpenFileIffPresent ==
    [][ret'.op = "OpenFile" =>
          /\ ret'.err = "nil" <=> ret'.name \in DOMAIN data
          /\ ret'.err = "nil" => data'[ret'.name].mode = ret'.arg]_vars

\* C15: a Read with a destination of length zero on an open file whose
\* cursor is inside the buffer or at its end returns 0 bytes and no error,
\* end of stream included, in every state of the file: freshly created and
\* empty with no object in the bucket, after writes, and with the cursor at
\* the end of the buffer, no request to the bucket failing.  (Spec)
C15_ReadZero ==
    [][/\ ret'.op = "Read" /\ ret'.arg = 0 /\ FaultsOf(ret') = 0
       /\ ~data[ret'.name].closed
       /\ data[ret'.name].at \in 0..Len(data[ret'.name].data)
       => /\ status' = "running"
          /\ ret'.n = 0 /\ ret'.err = "nil"]_vars

\* what a buffer old is to be after b was written at the cursor c: as long
\* as the longer of old and c + Len(b), with b from c on, zero bytes between
\* the end of old and c, and the bytes of old everywhere else
Written(old, c, b, new) ==
    /\ Len(new) = (IF Len(old) >= c + Len(b) THEN Len(old) ELSE c + Len(b))
    /\ \A i \in 1..Len(new) :
          new[i] = IF c < i /\ i <= c + Len(b) THEN b[i - c]
                   ELSE IF i <= Len(old) THEN old[i]
                   ELSE 0

\* C16: Write(b), and WriteAt(b, c), with the cursor c on an open file
\* returns Len(b) and no error, and leaves a buffer that is the old one
\* with b at c: of length max(L, c + Len(b)), zero bytes from L to c when
\* c > L, and the old bytes at every other position.  (Spec)
C16_WriteAtCursor ==
    [][/\ IsFile(FilePath) /\ ~data[FilePath].closed
       => /\ \A b \in Bytes :
                data[FilePath].at >= 0 /\ DoWrite(FilePath, b) =>
                   /\ ret'.n = Len(b) /\ ret'.err = "nil"
                   /\ Written(data[FilePath].data, data[FilePath].at, b,
                              data'[FilePath].data)
          /\ \A b \in Short, off \in Offsets :
                off >= 0 /\ DoWriteAt(FilePath, b, off) =>
                   /\ ret'.n = Len(b) /\ ret'.err = "nil"
                   /\ Written(data[FilePath].data, off, b,
                              data'[FilePath].data)]_vars

\* C17: Seek accepts a position beyond the end of the buffer: it returns
\* that position and no error, and the cursor is there.  A Read
\* with a non-empty destination at such a position returns 0 bytes and
\* the end of the stream: it returns no other error, does not index
\* outside the buffer, and leaves the buffer as it is.  Stated for files
\* whose buffer is not empty, so that Read does not fetch.  (Spec)
C17_ReadBeyondEnd ==
    [][/\ ret'.op \in {"Seek", "Read"}
       /\ ~data[ret'.name].closed
       /\ Len(data[ret'.name].data) > 0
       => /\ ret'.op = "Seek" /\ ret'.n > Len(data[ret'.name].data) =>
                /\ ret'.err = "nil"
                /\ data'[ret'.name].at = ret'.n
          /\ ret'.op = "Read" /\ ret'.arg > 0
                /\ data[ret'.name].at > Len(data[ret'.name].data) =>
                /\ status' = "running"
                /\ ret'.n = 0 /\ ret'.err = "EOF"
                /\ data'[ret'.name].data = data[ret'.name].data]_vars

(***************************************************************************)
(* AclSpec: getACL applied to every permission value from 0 to 0777.       *)
(* ret.arg is the value and ret.out holds the access level it gave.        *)
(***************************************************************************)
Perms == 0..(8 * 8 * 8 - 1)

AclInit ==
    /\ data = EmptyMap
    /\ remote = EmptyMap
    /\ ret = NoCall
    /\ status = "running"
    /\ scn = Idle

GetACL ==
    /\ \E m \in Perms :
          ret' = Ret("getACL", <<>>, <<>>, m, 0, "nil", <<getACL(m)>>, <<>>)
    /\ UNCHANGED <<data, remote, status, scn>>

AclSpec == AclInit /\ [][GetACL]_vars

\* the octal digits of a permission value for the group and for the others
GroupDigit(m) == (m \div 8) % 8
OtherDigit(m) == m % 8

\* in an octal digit rwx, r counts 4 and w counts 2
MayRead(digit) == digit >= 4
MayWrite(digit) == digit % 4 >= 2

\* the access level by first match: others write, others read, group
\* write, group read, else private
Level(m) ==
    CASE MayWrite(OtherDigit(m)) -> "public-read-write"
      [] ~MayWrite(OtherDigit(m)) /\ MayRead(OtherDigit(m)) -> "public-read"
      [] OtherDigit(m) < 2 /\ MayWrite(GroupDigit(m)) -> "bucket-owner-full-control"
      [] OtherDigit(m) < 2 /\ ~MayWrite(GroupDigit(m)) /\ MayRead(GroupDigit(m)) ->
            "bucket-owner-read"
      [] OTHER -> "private"

\* two permission values with the same read and write bits for the group
\* and for the others
SameGroupAndOther(m1, m2) ==
    /\ MayRead(OtherDigit(m1)) = MayRead(OtherDigit(m2))
    /\ MayWrite(OtherDigit(m1)) = MayWrite(OtherDigit(m2))
    /\ MayRead(GroupDigit(m1)) = MayRead(GroupDigit(m2))
    /\ MayWrite(GroupDigit(m1)) = MayWrite(GroupDigit(m2))

\* C18: getACL gives every permission value from 0 to 0777 the access
\* level of the first match among others write, others read, group write
\* and group read, private when none matches, and the level depends
\* neither on an execute bit nor on the bits of the owner.
C18_AclFirstMatch ==
    ret.op = "getACL" =>
        /\ ret.out = <<Level(ret.arg)>>
        /\ \A m \in Perms :
              SameGroupAndOther(m, ret.arg) => getACL(m) = ret.out[1]

\* C18's case: 0751 (others may execute only, the group may read and
\* execute) was given bucket-owner-read
C18_Witness ==
    /\ ret.op = "getACL" /\ ret.arg = 7 * 64 + 5 * 8 + 1
    /\ ret.out = <<"bucket-owner-read">>

\* the directory nodes of the map whose children collection holds the key k
ParentsOf(k) ==
    {q \in DOMAIN data : data[q] # NilFile /\ k \in data[q].memDir.files}

\* C19: after any sequence of Create, Mkdir, Rename, Remove and RemoveAll
\* calls, every node of the namespace map but the root is in the children
\* collection of the directory node at its parent path and in no other,
\* and every entry of a children collection is a key of the map.  (NsSpec)
C19_DualIndex ==
    status = "running" =>
        /\ \A k \in DOMAIN data \ {Root} :
              /\ FilepathDir(k) \in DOMAIN data
              /\ ParentsOf(k) = {FilepathDir(k)}
        /\ \A q \in DOMAIN data :
              data[q] # NilFile => data[q].memDir.files \subseteq DOMAIN data

\* C20: no call requests the exclusive lock of the namespace while it
\* holds the shared lock, so that no call waits for itself: Remove, and
\* the Remove that Rename calls, returns for every content of the
\* namespace, a node at the path "name" included.  (NsSpec has no other
\* way for Remove and Rename not to return.)
C20_RemoveReturns ==
    [][ret'.op \in {"Remove", "Rename"} => status' = "running"]_vars

\* the requests of a call with the verb verb
Sent(r, verb) == SelectSeq(r.reqs, LAMBDA q : q.verb = verb)

\* C21: a RemoveAll whose List requests all succeed returns: it stops
\* listing at the first response that is not truncated (in the model the
\* first response, which holds every key, or none), sends the batch
\* delete once and returns.  (NsSpec)
C21_RemoveAllReturns ==
    [][/\ ret'.op = "RemoveAll"
       /\ \A i \in 1..Len(ret'.reqs) :
             ret'.reqs[i].verb = "LIST" => ret'.reqs[i].result = "ok"
       => /\ status' = "running"
          /\ Len(Sent(ret', "LIST")) = 1
          /\ Len(Sent(ret', "DELMULTI")) = 1]_vars

\* C23: after any sequence of Create, Mkdir, Rename and RemoveAll calls,
\* the name of every node of the namespace map (what Stat reports, the key
\* Close uploads to, the path OpenFile hands to Chmod) is the key under
\* which the map holds the node.  (NsSpec)
C23_NameIsKey ==
    \A k \in DOMAIN data : data[k] # NilFile => data[k].name = k

(***************************************************************************)
(* FetchSpec: one client on the file /f; scn.pc is "dirty" when the file   *)
(* has been written or truncated since it was created or opened last, and  *)
(* "clean" otherwise.                                                      *)
(***************************************************************************)
Clean == [pc |-> "clean"]
Dirty == [pc |-> "dirty"]

FetchInit ==
    /\ data = EmptyMap
    /\ remote \in Buckets({FilePath}, Objects(ForeignBodies))
    /\ ret = NoCall
    /\ status = "running"
    /\ scn = Clean

\* the call that was just made changed the buffer of the file
Modified == scn' = IF ret'.err = "nil" THEN Dirty ELSE scn

FetchCreate == DoCreate(FilePath) /\ scn' = Clean
FetchOpen == DoOpen(FilePath) /\ scn' = IF ret'.err = "nil" THEN Clean ELSE scn
FetchWrite == (\E b \in Bytes : DoWrite(FilePath, b)) /\ Modified
FetchTruncate == (\E size \in 0..MaxLen : DoTruncate(FilePath, size)) /\ Modified
FetchRead == (\E len \in 0..MaxLen : DoRead(FilePath, len)) /\ UNCHANGED scn
FetchClose == DoClose(FilePath) /\ UNCHANGED scn

FetchNext ==
    \/ FetchCreate \/ FetchOpen \/ FetchWrite \/ FetchTruncate
    \/ FetchRead \/ FetchClose

FetchSpec == FetchInit /\ [][FetchNext]_vars

\* C24: once a file has been written or truncated since it was created or
\* opened, no Read replaces its buffer with the content of the object in
\* the bucket: a Read leaves the buffer as the client made it.
C24_NoFetchOverDirty ==
    [][scn.pc = "dirty" /\ ret'.op = "Read" =>
          data'[FilePath].data = data[FilePath].data]_vars

\* C22: in every interleaving with the Create, Rename and RemoveAll calls
\* of another goroutine, a Create that returns returns a node, not nil,
\* and the node is one that its goroutine allocated, not one of the other
\* goroutine.  (RaceSpec)
C22_CreateReturnsOwn ==
    [][\A i \in Goroutines :
          /\ scn.g[i].op = "Create" /\ scn'.g[i].pc = "idle"
          /\ status' = "running"
          => /\ ret'.out # <<>>
             /\ "ptr" \in DOMAIN ret'.out[1]
             /\ ret'.out[1].ptr = i]_vars

(***************************************************************************)
(* LockSpec: two goroutines calling Rename, Create and Mkdir, with the     *)
(* sync.RWMutex of the MemS3Fs.  scn.readers[i] counts the times goroutine *)
(* i holds the lock for reading, scn.waiting holds the goroutines that     *)
(* called Lock and wait for it.  A writer that waits keeps new readers     *)
(* out; a critical section of a writer is one step, so that no state has   *)
(* a writer inside.  scn.g[i] is the frame of goroutine i as in RaceSpec,  *)
(* with err, the error Rename got from PutCopy.                            *)
(***************************************************************************)
LockFrame(pc, op, name, to, cur, top, err) ==
    [pc |-> pc, op |-> op, name |-> name, to |-> to, cur |-> cur, top |-> top,
     err |-> err]

LockIdle == LockFrame("idle", "", <<>>, <<>>, <<>>, FALSE, "nil")

\* RWMutex.RLock returns: no writer is waiting
CanRLock == scn.waiting = {}

\* RWMutex.Lock returns for goroutine i: no reader is left
CanLock(i) == i \in scn.waiting /\ \A j \in Goroutines : scn.readers[j] = 0

\* goroutine i goes on with the frame f, holding the lock for reading
\* held times, and waiting for Lock or not
LockStep(i, f, held, waits) ==
    scn' = [scn EXCEPT !.g[i] = f,
                       !.readers[i] = held,
                       !.waiting = IF waits THEN @ \cup {i} ELSE @ \ {i}]

LockInit ==
    /\ data = FsCreate(EmptyMap, PathA).d
    /\ remote \in Buckets({PathA}, {[body |-> <<>>, etag |-> PutEtag(<<>>)]})
    /\ ret = NoCall
    /\ status = "running"
    /\ scn = [pc |-> "lock", g |-> [i \in Goroutines |-> LockIdle],
              readers |-> [i \in Goroutines |-> 0], waiting |-> {}]

\* the call in the frame f of goroutine i returns err
LockReturn(i, f, err, reqs) ==
    /\ LockStep(i, LockIdle, 0, FALSE)
    /\ ret' = Ret(f.op, f.name, f.to, i, 0, err, <<>>, reqs)

\* Create: m.lock() is called
LockCreate(i) ==
    /\ status = "running" /\ scn.g[i].pc = "idle"
    /\ \E name \in RacePaths :
          LockStep(i, LockFrame("put", "Create", name, <<>>, name, FALSE, "nil"),
                   0, TRUE)
    /\ UNCHANGED <<data, remote, ret, status>>

\* Create: Lock returns; m.getData()[name] = MemFileCreate(...); m.unlock()
LockCreatePut(i) ==
    LET f == scn.g[i]
    IN  /\ status = "running" /\ f.pc = "put" /\ CanLock(i)
        /\ data' = MapPut(data, f.name, MemFileCreate(f.name))
        /\ LockStep(i, [f EXCEPT !.pc = "registerDirs"], 0, FALSE)
        /\ UNCHANGED <<remote, ret, status>>

\* registerDirs(m.getData()[cur]), as in RaceSpec; the Open of findParent
\* takes the lock for reading
LockRegisterDirs(i) ==
    LET f == scn.g[i]
    IN  /\ status = "running" /\ f.pc = "registerDirs"
        /\ IF f.cur \notin DOMAIN data \/ data[f.cur] = NilFile
           THEN /\ status' = "panicked"
                /\ data' = data
                /\ LockReturn(i, f, "panic", <<>>)
           ELSE IF data[f.cur].name = Root
           THEN /\ status' = status
                /\ data' = data
                /\ LockReturn(i, f, "nil", <<>>)
           ELSE LET fname == data[f.cur].name
                    dirs == PathSplit(fname).dir
                    opens == /\ Len(dirs) > 1
                             /\ Len(PathSplit(PathClean(dirs)).file) > 0
                    p == findParent(data, fname)
                    pdir == FilepathDir(PathClean(fname))
                IN  /\ opens => CanRLock
                    /\ status' = status
                    /\ data' = p.d
                    /\ ret' = ret
                    /\ IF p.parent # <<>>
                       THEN LockStep(i, [f EXCEPT !.cur = p.parent[1]], 0, FALSE)
                       ELSE LockStep(i, [f EXCEPT !.pc = "mkdir", !.cur = pdir,
                                                  !.top = FALSE], 0, FALSE)
        /\ UNCHANGED remote

\* Mkdir: m.rlock(); the lookup; m.runlock(); then the return when the key
\* is there, and the call of m.lock() when it is not
LockMkdirCheck(i, f) ==
    /\ CanRLock
    /\ IF f.cur \in DOMAIN data
       THEN LockReturn(i, f,
                       IF ~f.top THEN "nil"
                       ELSE IF data[f.cur] # NilFile /\ ~data[f.cur].memDir.nil
                       THEN "nil" ELSE "ErrFileExists",
                       <<>>)
       ELSE /\ LockStep(i, [f EXCEPT !.pc = "mkdirPut"], 0, TRUE)
            /\ ret' = ret

\* a call of Mkdir
LockMkdir(i) ==
    /\ status = "running" /\ scn.g[i].pc = "idle"
    /\ \E name \in RacePaths :
          LockMkdirCheck(i, LockFrame("mkdir", "Mkdir", name, <<>>, name, TRUE, "nil"))
    /\ UNCHANGED <<data, remote, status>>

\* the Mkdir that registerWithParent calls
LockMkdirParent(i) ==
    /\ status = "running" /\ scn.g[i].pc = "mkdir"
    /\ LockMkdirCheck(i, scn.g[i])
    /\ UNCHANGED <<data, remote, status>>

\* Mkdir: Lock returns; the store; m.unlock()
LockMkdirPut(i) ==
    LET f == scn.g[i]
    IN  /\ status = "running" /\ f.pc = "mkdirPut" /\ CanLock(i)
        /\ data' = MapPut(data, f.cur, MemDirCreate(f.cur))
        /\ LockStep(i, [f EXCEPT !.pc = "registerDirs"], 0, FALSE)
        /\ UNCHANGED <<remote, ret, status>>

\* Rename: m.rlock(); defer m.runlock(); the two lookups; then the return,
\* or m.runlock() and the call of m.lock()
LockRename(i) ==
    /\ status = "running" /\ scn.g[i].pc = "idle" /\ CanRLock
    /\ \E oldname \in RacePaths, newname \in RacePaths :
          LET f == LockFrame("rekey", "Rename", oldname, newname, <<>>, FALSE, "nil")
          IN  IF oldname \notin DOMAIN data
              THEN LockReturn(i, f, "ErrFileNotFound", <<>>)
              ELSE IF newname \in DOMAIN data
              THEN LockReturn(i, f, "ErrDestinationExists", <<>>)
              ELSE LockStep(i, f, 0, TRUE) /\ ret' = ret
    /\ UNCHANGED <<data, remote, status>>

\* Rename: Lock returns; the map is re-keyed; PutCopy; m.unlock()
LockRekey(i) ==
    LET f == scn.g[i]
        node == IF f.name \in DOMAIN data THEN data[f.name] ELSE NilFile
    IN  /\ status = "running" /\ f.pc = "rekey" /\ CanLock(i)
        /\ data' = MapDelete(MapPut(data, f.to, node), f.name)
        /\ \E copyFault \in BOOLEAN :
              LET c == BucketCopy(remote, f.to, f.name, copyFault)
              IN  /\ remote' = c.remote
                  /\ LockStep(i, [f EXCEPT !.pc = "rlock", !.err = c.err], 0, FALSE)
        /\ UNCHANGED <<ret, status>>

\* Rename: m.rlock() after the unlock; the return of the error of PutCopy
\* (with the deferred runlock), or the call of Remove
LockRenameRlock(i) ==
    LET f == scn.g[i]
    IN  /\ status = "running" /\ f.pc = "rlock" /\ CanRLock
        /\ IF f.err # "nil"
           THEN LockReturn(i, f, f.err, <<>>)
           ELSE LockStep(i, [f EXCEPT !.pc = "remove"], 1, FALSE) /\ ret' = ret
        /\ UNCHANGED <<data, remote, status>>

\* Remove, called by Rename: m.rlock(); defer m.runlock()
LockRemoveRlock(i) ==
    LET f == scn.g[i]
    IN  /\ status = "running" /\ f.pc = "remove" /\ CanRLock
        /\ LockStep(i, [f EXCEPT !.pc = "del"], scn.readers[i] + 1, FALSE)
        /\ UNCHANGED <<data, remote, ret, status>>

\* Remove: Del and the lookup of "name"; with the key there, m.lock() is
\* called by a goroutine that holds the lock for reading and never
\* returns; else Remove returns nil and Rename returns nil
LockRemoveDel(i) ==
    LET f == scn.g[i]
    IN  /\ status = "running" /\ f.pc = "del"
        /\ \E delFault \in BOOLEAN :
              LET del == BucketDel(remote, f.name, delFault)
              IN  /\ remote' = del.remote
                  /\ IF NameLit \in DOMAIN data
                     THEN /\ LockStep(i, [f EXCEPT !.pc = "lock"], scn.readers[i], TRUE)
                          /\ ret' = ret
                     ELSE LockReturn(i, f, "nil", <<del.req>>)
        /\ UNCHANGED <<data, status>>

LockNext ==
    \E i \in Goroutines :
        \/ LockCreate(i) \/ LockCreatePut(i) \/ LockRegisterDirs(i)
        \/ LockMkdir(i) \/ LockMkdirParent(i) \/ LockMkdirPut(i)
        \/ LockRename(i) \/ LockRekey(i) \/ LockRenameRlock(i)
        \/ LockRemoveRlock(i) \/ LockRemoveDel(i)

LockSpec == LockInit /\ [][LockNext]_vars

\* goroutine i is inside a call and waits for a lock that the state does
\* not grant
Blocked(i) ==
    LET f == scn.g[i]
    IN  \/ f.pc \in {"put", "mkdirPut", "rekey", "lock"} /\ ~CanLock(i)
        \/ f.pc \in {"mkdir", "rlock", "remove"} /\ ~CanRLock

\* a Rename and a call that asks for the exclusive lock wait for each other
RenameDeadlock ==
    \E i \in Goroutines, j \in Goroutines :
        /\ scn.g[i].op = "Rename" /\ Blocked(i)
        /\ scn.g[j].op \in {"Create", "Mkdir"} /\ Blocked(j)

\* C25: Rename is free of deadlock under a reader/writer lock that keeps
\* new readers out while a writer waits: a Rename that runs with a Create
\* or a Mkdir is never in a state where both calls wait for the lock (so
\* that both return), and a goroutine in Rename never holds the shared lock
\* twice.
C25_RenameNoDeadlock ==
    /\ ~RenameDeadlock
    /\ \A i \in Goroutines : scn.g[i].op = "Rename" => scn.readers[i] <= 1

\* the deadlock alone
C25_BothReturn == ~RenameDeadlock

\* the second read lock alone
C25_OneReadLock ==
    \A i \in Goroutines : scn.g[i].op = "Rename" => scn.readers[i] <= 1

====
